---- MODULE Spec2Model ----
(***************************************************************************)
(* Model of the manifest translation backup/restore scripts                *)
(*   docs/reference/ExtractChineseTranslations.py   (the scan)             *)
(*   docs/reference/RestoreChineseTranslations.py   (the restore)          *)
(*                                                                         *)
(*   generate_test_mods.py                          (the generator)        *)
(*                                                                         *)
(* A text is a sequence of characters, one token each.  Zh stands for one  *)
(* character in the range U+4E00..U+9FFF, and a character outside          *)
(* printable ASCII is a token that spells its code point.                  *)
(***************************************************************************)
EXTENDS Naturals, Sequences, FiniteSets

Q  == "\""
BS == "\\"
NL == "\n"
SP == " "

\* the printable ASCII characters, codes 32 to 126 (the grave accent, which
\* a string of this language cannot hold, spelled by its code)
Ascii ==
    <<" ", "!", "\"", "#", "$", "%", "&", "'", "(", ")", "*", "+", ",", "-",
      ".", "/", "0", "1", "2", "3", "4", "5", "6", "7", "8", "9", ":", ";",
      "<", "=", ">", "?", "@", "A", "B", "C", "D", "E", "F", "G", "H", "I",
      "J", "K", "L", "M", "N", "O", "P", "Q", "R", "S", "T", "U", "V", "W",
      "X", "Y", "Z", "[", "\\", "]", "^", "_", "\\x60", "a", "b", "c", "d", "e",
      "f", "g", "h", "i", "j", "k", "l", "m", "n", "o", "p", "q", "r", "s",
      "t", "u", "v", "w", "x", "y", "z", "{", "|", "}", "~">>

Hex == <<"0", "1", "2", "3", "4", "5", "6", "7", "8", "9",
         "a", "b", "c", "d", "e", "f">>

\* the hexadecimal digits of n
RECURSIVE HexStr(_)
HexStr(n) ==
    IF n < 16 THEN Hex[n + 1] ELSE HexStr(n \div 16) \o Hex[(n % 16) + 1]

\* chr(n): the character itself when it is a line feed or printable ASCII,
\* else a token that spells its code point
Chr(n) ==
    IF n = 10 THEN NL
    ELSE IF n >= 32 /\ n <= 126 THEN Ascii[n - 31]
    ELSE IF n < 256 THEN "\\x" \o Hex[(n \div 16) + 1] \o Hex[(n % 16) + 1]
    ELSE "\\u" \o (IF n < 4096 THEN "0" ELSE "") \o HexStr(n)

\* chinese_pattern [\u4e00-\u9fff], and one character of it
Chinese == {Chr(n) : n \in 19968..40959}
Zh == Chr(20013)

\* the lone surrogates, which json.load gives for an escape like \ud800 and
\* which no write in UTF-8 takes
Surrogates == {Chr(n) : n \in 55296..57343}

\* t.encode('utf-8') does not raise
Encodable(t) == \A i \in 1..Len(t) : t[i] \notin Surrogates

\* the code points of the digit zero of every script of Unicode 14 (the
\* database of Python 3.11): the nine that follow each are its digits 1
\* to 9
DecimalZeros ==
    {48, 1632, 1776, 1984, 2406, 2534, 2662, 2790, 2918, 3046, 3174, 3302,
     3430, 3558, 3664, 3792, 3872, 4160, 4240, 6112, 6160, 6470, 6608, 6784,
     6800, 6992, 7088, 7232, 7248, 42528, 43216, 43264, 43472, 43504, 43600,
     44016, 65296, 66720, 68912, 69734, 69872, 69942, 70096, 70384, 70736,
     70864, 71248, 71360, 71472, 71904, 72016, 72784, 73040, 73120, 92768,
     92864, 93008, 120782, 120792, 120802, 120812, 120822, 123200, 123632,
     125264, 130032}

\* \d of a str pattern, and the digits int() reads: every decimal digit
UniDigits == {Chr(z + k) : z \in DecimalZeros, k \in 0..9}
UniDigitVal(c) ==
    CHOOSE k \in 0..9 : \E z \in DecimalZeros : Chr(z + k) = c

\* the ASCII digits, which the template parser of re looks for
Digits    == {Chr(n) : n \in 48..57}
OctDigits == {Chr(n) : n \in 48..55}
DigitVal(c) == CHOOSE n \in 0..9 : Chr(48 + n) = c

AsciiLetters == {Chr(n) : n \in 65..90} \cup {Chr(n) : n \in 97..122}

\* sre_parse.ESCAPES: the letters that backslash turns into a character
EscapeCodes ==
    [c \in {"a", "b", "f", "n", "r", "t", "v"} |->
        CASE c = "a" -> 7  [] c = "b" -> 8  [] c = "f" -> 12 [] c = "n" -> 10
          [] c = "r" -> 13 [] c = "t" -> 9  [] c = "v" -> 11]

\* the characters that the template parser of re rejects after a backslash
\* as a bad escape: the ASCII letters that are no escape and not g
Letters == AsciiLetters \ (DOMAIN EscapeCodes \cup {"g"})

\* re.IGNORECASE on a str pattern: the characters that match an ASCII
\* letter beside the letter itself are its capital, and for i, k and s
\* also U+0130 and U+0131, U+212A, U+017F
LowerOf ==
    [c \in {Chr(n) : n \in (65..90) \cup {304, 305, 383, 8490}} |->
        IF c \in {Chr(304), Chr(305)} THEN "i"
        ELSE IF c = Chr(8490) THEN "k"
        ELSE IF c = Chr(383) THEN "s"
        ELSE Chr((CHOOSE n \in 65..90 : Chr(n) = c) + 32)]

Lower(c) == IF c \in DOMAIN LowerOf THEN LowerOf[c] ELSE c

\* the key of a field pattern, and whether the pattern is compiled with
\* re.IGNORECASE (uniqueid_pattern is)
NameKey == [word |-> <<"N", "a", "m", "e">>, ignorecase |-> FALSE]
DescKey == [word |-> <<"D", "e", "s", "c", "r", "i", "p", "t", "i", "o", "n">>,
            ignorecase |-> FALSE]
UidKey  == [word |-> <<"U", "n", "i", "q", "u", "e", "I", "D">>,
            ignorecase |-> TRUE]

(***************************************************************************)
(* Optional string values: a JSON string, JSON null (Python None), or a    *)
(* key that is missing from the record.                                    *)
(***************************************************************************)
Str(v)  == [kind |-> "str", v |-> v]
None    == [kind |-> "null", v |-> <<>>]
Absent  == [kind |-> "absent", v |-> <<>>]
\* Python truthiness of mod_data.get(key) / of an extracted value
Truthy(x) == x.kind = "str" /\ x.v # <<>>

(***************************************************************************)
(* The field pattern  "<key>"\s*:\s*"[^"]*"                                *)
(***************************************************************************)
\* \s of a str pattern, and the characters str.strip() removes
WsCodes ==
    (9..13) \cup (28..32) \cup {133, 160, 5760} \cup (8192..8202)
    \cup {8232, 8233, 8239, 8287, 12288}
Whitespace == {Chr(n) : n \in WsCodes}
IsWs(c) == c \in Whitespace

RECURSIVE SkipWs(_, _)
SkipWs(s, i) == IF i <= Len(s) /\ IsWs(s[i]) THEN SkipWs(s, i + 1) ELSE i

\* the least index of a set of indices, 0 for the empty set
Least(hits) ==
    IF hits = {} THEN 0 ELSE CHOOSE j \in hits : \A k \in hits : j <= k

\* first index >= i that holds token c, 0 when there is none
FindTok(s, i, c) == Least({j \in i..Len(s) : s[j] = c})

NoMatch == [ok |-> FALSE, start |-> 0, vstart |-> 0, vend |-> 0]

\* the characters of word at s[i..], compared as the pattern's flags say
WordAt(s, i, word, ignorecase) ==
    /\ i + Len(word) - 1 <= Len(s)
    /\ \A k \in 1..Len(word) :
          IF ignorecase THEN Lower(s[i + k - 1]) = Lower(word[k])
          ELSE s[i + k - 1] = word[k]

\* the pattern anchored at position i: start is the opening quote of the
\* key, vstart..vend the span of [^"]* (empty when vend = vstart - 1), and
\* vend + 1 the closing quote
MatchFieldAt(s, i, key) ==
    LET q == i + Len(key.word) + 1 IN
    IF s[i] = Q /\ q <= Len(s) /\ s[q] = Q
       /\ WordAt(s, i + 1, key.word, key.ignorecase)
    THEN LET j == SkipWs(s, q + 1) IN
         IF j <= Len(s) /\ s[j] = ":"
         THEN LET k == SkipWs(s, j + 1) IN
              IF k <= Len(s) /\ s[k] = Q
              THEN LET m == FindTok(s, k + 1, Q) IN
                   IF m > 0
                   THEN [ok |-> TRUE, start |-> i, vstart |-> k + 1,
                         vend |-> m - 1]
                   ELSE NoMatch
              ELSE NoMatch
         ELSE NoMatch
    ELSE NoMatch

\* pattern.search from position i: the leftmost match
SearchField(s, i, key) ==
    LET j == Least({j \in i..Len(s) :
                       s[j] = Q /\ MatchFieldAt(s, j, key).ok}) IN
    IF j = 0 THEN NoMatch ELSE MatchFieldAt(s, j, key)

\* group(1) of the first match, None without a match
FieldValue(s, key) ==
    LET m == SearchField(s, 1, key) IN
    IF m.ok THEN Str(SubSeq(s, m.vstart, m.vend)) ELSE None

(***************************************************************************)
(* Escaping and the replacement template  r'\1' + escaped + r'\2'          *)
(***************************************************************************)
RECURSIVE ReplaceTok(_, _, _)
ReplaceTok(s, c, r) ==
    IF s = <<>> THEN <<>>
    ELSE IF Len(s) = 1 THEN (IF s[1] = c THEN r ELSE s)
    ELSE LET h == Len(s) \div 2 IN
         ReplaceTok(SubSeq(s, 1, h), c, r)
         \o ReplaceTok(SubSeq(s, h + 1, Len(s)), c, r)

\* value.replace('\\', '\\\\').replace('"', '\\"')
Escape(v) == ReplaceTok(ReplaceTok(v, BS, <<BS, BS>>), Q, <<BS, Q>>)

Template(v) == <<BS, "1">> \o Escape(v) \o <<BS, "2">>

Lit(n, toks) == [len |-> n, kind |-> "lit", toks |-> toks]
Bad(n)       == [len |-> n, kind |-> "bad", toks |-> <<>>]
\* addgroup: the pattern has two groups, a larger index is an invalid group
\* reference; kind is "0", "1" or "2"
Group(n, index) ==
    IF index > 2 THEN Bad(n)
    ELSE [len |-> n, kind |-> Chr(48 + index), toks |-> <<>>]

\* the characters int() skips around a number: the ASCII blanks, and the
\* characters above ASCII that are Unicode spaces
IntWs == {Chr(n) : n \in WsCodes \ (28..31)}

RECURSIVE LStrip(_)
LStrip(s) == IF s # <<>> /\ Head(s) \in IntWs THEN LStrip(Tail(s)) ELSE s

RECURSIVE RStrip(_)
RStrip(s) ==
    IF s # <<>> /\ s[Len(s)] \in IntWs THEN RStrip(SubSeq(s, 1, Len(s) - 1))
    ELSE s

\* the digits ds[i..] added to acc as int() reads them, single underscores
\* between digits allowed; 3 stands for every value above 2, 4 for ValueError
RECURSIVE IntDigits(_, _, _)
IntDigits(ds, i, acc) ==
    IF i > Len(ds) THEN acc
    ELSE IF ds[i] \in UniDigits
         THEN LET n == 10 * acc + UniDigitVal(ds[i]) IN
              IntDigits(ds, i + 1, IF n > 3 THEN 3 ELSE n)
    ELSE IF ds[i] = "_" /\ i > 1 /\ ds[i - 1] \in UniDigits
            /\ i < Len(ds) /\ ds[i + 1] \in UniDigits
         THEN IntDigits(ds, i + 1, acc)
    ELSE 4

\* int(name) of a group name that is no identifier: blanks around it and a
\* sign are accepted, the digits may be of any script; a negative index is
\* a ValueError
IntName(name) ==
    LET t    == RStrip(LStrip(name))
        sign == IF t # <<>> /\ t[1] \in {"+", "-"} THEN t[1] ELSE ""
        ds   == IF sign = "" THEN t ELSE Tail(t)
        n    == IF ds = <<>> \/ ds[1] \notin UniDigits THEN 4
                ELSE IntDigits(ds, 1, 0)
    IN  IF sign = "-" /\ n # 0 THEN 4 ELSE n

\* \g<name> at t[i]; an identifier is an unknown group name (IndexError)
GroupByName(t, i) ==
    IF i + 2 > Len(t) \/ t[i + 2] # "<" THEN Bad(2)
    ELSE LET close == FindTok(t, i + 3, ">") IN
         IF close = 0 \/ close = i + 3 THEN Bad(Len(t) - i + 1)
         ELSE LET n == IntName(SubSeq(t, i + 3, close - 1)) IN
              IF n = 4 THEN Bad(close - i + 1) ELSE Group(close - i + 1, n)

\* the escape that starts at t[i] = BS, as re's template parser reads it:
\* its length in tokens and what it stands for
EscapeAt(t, i) ==
    IF i + 1 > Len(t) THEN Bad(1)
    ELSE LET c    == t[i + 1]
             oct2 == i + 2 <= Len(t) /\ t[i + 2] \in OctDigits
             oct3 == i + 3 <= Len(t) /\ t[i + 3] \in OctDigits
         IN
         IF c = "g" THEN GroupByName(t, i)
         ELSE IF c = "0"
         THEN IF oct2 /\ oct3
              THEN Lit(4, <<Chr(8 * DigitVal(t[i + 2]) + DigitVal(t[i + 3]))>>)
              ELSE IF oct2 THEN Lit(3, <<Chr(DigitVal(t[i + 2]))>>)
              ELSE Lit(2, <<Chr(0)>>)
         ELSE IF c \in Digits
         THEN IF i + 2 <= Len(t) /\ t[i + 2] \in Digits
              THEN IF c \in OctDigits /\ oct2 /\ oct3
                   THEN LET v == 64 * DigitVal(c) + 8 * DigitVal(t[i + 2])
                                    + DigitVal(t[i + 3])
                        IN  IF v > 255 THEN Bad(4) ELSE Lit(4, <<Chr(v)>>)
                   ELSE Group(3, 10 * DigitVal(c) + DigitVal(t[i + 2]))
              ELSE Group(2, DigitVal(c))
         ELSE IF c \in DOMAIN EscapeCodes THEN Lit(2, <<Chr(EscapeCodes[c])>>)
         ELSE IF c = BS THEN Lit(2, <<BS>>)
         ELSE IF c \in Letters THEN Bad(2)
         ELSE Lit(2, <<BS, c>>)

\* re.error (or IndexError) raised while the template is parsed
RECURSIVE TemplateBad(_, _)
TemplateBad(t, i) ==
    IF i > Len(t) THEN FALSE
    ELSE IF t[i] # BS THEN TemplateBad(t, i + 1)
    ELSE LET e == EscapeAt(t, i) IN
         e.kind = "bad" \/ TemplateBad(t, i + e.len)

\* the template expanded for one match: g0 the whole match, g1 and g2 its
\* two groups
RECURSIVE Expand(_, _, _, _, _)
Expand(t, i, g0, g1, g2) ==
    IF i > Len(t) THEN <<>>
    ELSE IF t[i] # BS THEN <<t[i]>> \o Expand(t, i + 1, g0, g1, g2)
    ELSE LET e == EscapeAt(t, i) IN
         (CASE e.kind = "0" -> g0
            [] e.kind = "1" -> g1
            [] e.kind = "2" -> g2
            [] OTHER -> e.toks) \o Expand(t, i + e.len, g0, g1, g2)

\* re.sub(r'("<key>"\s*:\s*")[^"]*(")', template, content) from position i:
\* every non-overlapping match, left to right
RECURSIVE SubField(_, _, _, _)
SubField(s, i, key, t) ==
    LET m == SearchField(s, i, key) IN
    IF ~m.ok THEN SubSeq(s, i, Len(s))
    ELSE SubSeq(s, i, m.start - 1)
         \o Expand(t, 1, SubSeq(s, m.start, m.vend + 1),
                   SubSeq(s, m.start, m.vstart - 1), <<Q>>)
         \o SubField(s, m.vend + 2, key, t)

\* lines 111-118 / 121-128 once mod_data.get(key) is truthy
PatchField(content, key, value) ==
    IF SearchField(content, 1, key).ok
    THEN IF TemplateBad(Template(value), 1)
         THEN [content |-> content, updated |-> FALSE, raised |-> TRUE]
         ELSE [content |-> SubField(content, 1, key, Template(value)),
               updated |-> TRUE, raised |-> FALSE]
    ELSE [content |-> content, updated |-> FALSE, raised |-> FALSE]

(***************************************************************************)
(* Comment stripping and extraction (the scan)                             *)
(***************************************************************************)
\* first index >= i with s[index] = a and s[index + 1] = b, 0 when none
FindPair(s, i, a, b) ==
    LET at(j) == j + 1 <= Len(s) /\ s[j] = a /\ s[j + 1] = b IN
    Least({j \in i..Len(s) : at(j)})

\* re.sub(r'/\*.*?\*/', '', content, flags=re.DOTALL)
RECURSIVE StripBlock(_)
StripBlock(s) ==
    LET o == FindPair(s, 1, "/", "*") IN
    IF o = 0 THEN s
    ELSE LET c == FindPair(s, o + 2, "*", "/") IN
         IF c = 0 THEN s
         ELSE SubSeq(s, 1, o - 1) \o StripBlock(SubSeq(s, c + 2, Len(s)))

\* re.sub(r'//.*?$', '', content, flags=re.MULTILINE)
RECURSIVE StripLine(_)
StripLine(s) ==
    LET o == FindPair(s, 1, "/", "/") IN
    IF o = 0 THEN s
    ELSE LET e == FindTok(s, o + 2, NL) IN
         IF e = 0 THEN SubSeq(s, 1, o - 1)
         ELSE SubSeq(s, 1, o - 1) \o StripLine(SubSeq(s, e, Len(s)))

StripComments(s) == StripLine(StripBlock(s))

\* chinese_pattern searched in a value
HasChinese(v) == \E i \in 1..Len(v) : v[i] \in Chinese

\* the end of a run of digits that starts at i (i - 1 when there is none)
RECURSIVE DigitsEnd(_, _)
DigitsEnd(s, i) ==
    IF i <= Len(s) /\ s[i] \in UniDigits THEN DigitsEnd(s, i + 1) ELSE i - 1

NexusWord == <<"N", "e", "x", "u", "s", ":">>

\* nexus_pattern  "Nexus:(\d+)"  searched from position i
SearchNexus(s, i) ==
    LET d(j)  == j + 1 + Len(NexusWord)
        at(j) == /\ s[j] = Q /\ WordAt(s, j + 1, NexusWord, FALSE)
                 /\ DigitsEnd(s, d(j)) >= d(j)
                 /\ DigitsEnd(s, d(j)) + 1 <= Len(s)
                 /\ s[DigitsEnd(s, d(j)) + 1] = Q
        j == Least({k \in i..Len(s) : at(k)})
    IN  IF j = 0 THEN None ELSE Str(SubSeq(s, d(j), DigitsEnd(s, d(j))))

UpdateKeysWord == <<"U", "p", "d", "a", "t", "e", "K", "e", "y", "s">>

\* updatekeys_pattern  "UpdateKeys"\s*:\s*\[(.*?)\]  (DOTALL) from position i
SearchUpdateKeys(s, i) ==
    LET q(j)       == j + 1 + Len(UpdateKeysWord)
        colon(j)   == SkipWs(s, q(j) + 1)
        bracket(j) == SkipWs(s, colon(j) + 1)
        at(j) == /\ q(j) <= Len(s)
                 /\ s[j] = Q /\ s[q(j)] = Q
                 /\ WordAt(s, j + 1, UpdateKeysWord, FALSE)
                 /\ colon(j) <= Len(s) /\ s[colon(j)] = ":"
                 /\ bracket(j) <= Len(s) /\ s[bracket(j)] = "["
                 /\ FindTok(s, bracket(j) + 1, "]") > 0
        j == Least({k \in i..Len(s) : at(k)})
    IN  IF j = 0 THEN None
        ELSE Str(SubSeq(s, bracket(j) + 1,
                        FindTok(s, bracket(j) + 1, "]") - 1))

UrlPrefix ==
    <<"h", "t", "t", "p", "s", ":", "/", "/", "w", "w", "w", ".", "n", "e",
      "x", "u", "s", "m", "o", "d", "s", ".", "c", "o", "m", "/", "s", "t",
      "a", "r", "d", "e", "w", "v", "a", "l", "l", "e", "y", "/", "m", "o",
      "d", "s", "/">>

ExtractNurl(c) ==
    LET uk == SearchUpdateKeys(c, 1) IN
    IF uk.kind # "str" THEN None
    ELSE LET nx == SearchNexus(uk.v, 1) IN
         IF nx.kind # "str" THEN None ELSE Str(UrlPrefix \o nx.v)

\* lines 77-107: what the scan reads out of a manifest's text
Extract(content) ==
    LET c == StripComments(content) IN
    [name        |-> FieldValue(c, NameKey),
     description |-> FieldValue(c, DescKey),
     unique_id   |-> FieldValue(c, UidKey),
     nurl        |-> ExtractNurl(c)]

(***************************************************************************)
(* The restore of one record (RestoreChineseTranslations.py, lines 60-142) *)
(***************************************************************************)
\* what a folder holds under the name manifest.json: a file with the text
\* that the reads of lines 74-84 give; the same that cannot be opened for
\* writing; nothing; a file that cannot be opened at all; a directory of
\* that name; a symbolic link to a file that is not there
TextFile(t)     == [kind |-> "text", text |-> t]
ReadOnlyFile(t) == [kind |-> "readonly", text |-> t]
MissingFile     == [kind |-> "missing", text |-> <<>>]
UnreadableFile  == [kind |-> "unreadable", text |-> <<>>]
DirectoryFile   == [kind |-> "dir", text |-> <<>>]
DanglingLink    == [kind |-> "dangling", text |-> <<>>]

\* os.path.exists follows links
Exists(f) == f.kind \notin {"missing", "dangling"}
\* open(path, 'r') gives the text
Readable(f) == f.kind \in {"text", "readonly"}

\* not content.strip()
IsBlank(t) == \A i \in 1..Len(t) : IsWs(t[i])

\* the decision were the stored flag ignored and the values always rechecked
ShouldUpdateRecheck(rec) ==
    \/ Truthy(rec.Name) /\ HasChinese(rec.Name.v)
    \/ Truthy(rec.Description) /\ HasChinese(rec.Description.v)

\* lines 93-100: the stored flag when the record has one, else the recheck
ShouldUpdate(rec) ==
    IF rec.IsChinese # "absent" THEN rec.IsChinese = "true"
    ELSE \/ Truthy(rec.Name) /\ HasChinese(rec.Name.v)
         \/ Truthy(rec.Description) /\ HasChinese(rec.Description.v)

NotPatched(content) == [content |-> content, updated |-> FALSE, raised |-> FALSE]

\* lines 111-117
PatchName(content, rec) ==
    IF Truthy(rec.Name) THEN PatchField(content, NameKey, rec.Name.v)
    ELSE NotPatched(content)

\* lines 121-128
PatchDescription(content, rec) ==
    IF Truthy(rec.Description)
    THEN PatchField(content, DescKey, rec.Description.v)
    ELSE NotPatched(content)

Result(outcome, why, written, content, n, d) ==
    [outcome |-> outcome, why |-> why, written |-> written,
     content |-> content, nameUpd |-> n, descUpd |-> d]

\* lines 130-137 once both patches went through: the write, or the count of
\* a record of which no field was found. codecs.open raises when the
\* manifest cannot be opened for writing; once it is open the manifest is
\* empty, and stays so when the text cannot be encoded
Save(text, p1, p2, writable) ==
    IF p2.raised
    THEN Result("raised", "error", FALSE, text, p1.updated, FALSE)
    ELSE IF p1.updated \/ p2.updated
    THEN IF ~writable
         THEN Result("raised", "write_error", FALSE, text,
                     p1.updated, p2.updated)
         ELSE IF ~Encodable(p2.content)
         THEN Result("raised", "write_error", TRUE, <<>>,
                     p1.updated, p2.updated)
         ELSE Result("restored", "updated", TRUE, p2.content,
                     p1.updated, p2.updated)
    ELSE Result("failed", "no_field", FALSE, text, FALSE, FALSE)

\* lines 118-137 after the Name patch p1: line 118 prints the Name, which
\* raises on a console that is strict about what it encodes
PatchRest(text, rec, p1, writable, strict) ==
    IF p1.raised THEN Result("raised", "error", FALSE, text, FALSE, FALSE)
    ELSE IF p1.updated /\ strict /\ ~Encodable(rec.Name.v)
    THEN Result("raised", "error", FALSE, text, TRUE, FALSE)
    ELSE Save(text, p1, PatchDescription(p1.content, rec), writable)

\* lines 107-137, the body of the try: an exception leaves it as "raised"
TryPatches(text, rec, writable, strict) ==
    PatchRest(text, rec, PatchName(text, rec), writable, strict)

\* lines 139-142: the except clause counts the record as failed
Caught(r) == IF r.outcome = "raised" THEN [r EXCEPT !.outcome = "failed"] ELSE r

\* both patches and the write were the exceptions not caught inside the
\* loop: the pass ends without any counter
PatchAndSaveUncaught(text, rec, writable, strict) ==
    TryPatches(text, rec, writable, strict)

\* lines 107-142: both patches, then the write or the failure; an exception
\* of a patch or of the open for writing goes to the except clause
PatchAndSave(text, rec, writable, strict) ==
    Caught(TryPatches(text, rec, writable, strict))

\* lines 64-105: the skips that come before the patches
RestoreOne(f, rec, strict) ==
    IF ~Exists(f)
    THEN Result("skipped", "missing", FALSE, <<>>, FALSE, FALSE)
    ELSE IF ~Readable(f)
    THEN Result("failed", "error", FALSE, <<>>, FALSE, FALSE)
    ELSE IF IsBlank(f.text)
    THEN Result("skipped", "empty", FALSE, f.text, FALSE, FALSE)
    ELSE IF ~ShouldUpdate(rec)
    THEN Result("skipped", "not_chinese", FALSE, f.text, FALSE, FALSE)
    ELSE PatchAndSave(f.text, rec, f.kind = "text", strict)

(***************************************************************************)
(* The scan of one manifest (ExtractChineseTranslations.py, lines 58-138)  *)
(***************************************************************************)
\* lines 109-114
IsChineseOf(name, description) ==
    \/ Truthy(name) /\ HasChinese(name.v)
    \/ Truthy(description) /\ HasChinese(description.v)

\* lines 95-97 and 120-127: the record built for the manifest of folder d
MakeRecord(d, e) ==
    [UniqueID    |-> IF Truthy(e.unique_id) THEN e.unique_id ELSE Str(<<d>>),
     Name        |-> e.name,
     Description |-> e.description,
     Path        |-> d,
     IsChinese   |-> IF IsChineseOf(e.name, e.description)
                     THEN "true" ELSE "false",
     Nurl        |-> e.nurl]

\* the test of line 117 were every manifest inserted
HasContentAlways(e) == TRUE

\* line 117
HasContent(e) == Truthy(e.name) \/ Truthy(e.description)

(***************************************************************************)
(* State                                                                   *)
(***************************************************************************)
VARIABLES
    files,              \* the manifest.json of each mod folder
    backup,             \* xlgChineseBack.json
    mode,               \* the script that runs or ran last
    pc,                 \* "idle" between runs, "loop" inside a script's loop
    todo,               \* what the running loop still has to visit
    translations_data,  \* the running script's dictionary
    success_count, error_count,
    restored_count, failed_count, skipped_count,
    console,            \* the last closing message of a script
    last,               \* what the last pass of a loop saw and printed
    trail,              \* per folder: what happened to it since the scan
    runs, edits,
    mod_json,           \* the record file that generate_test_mods.py reads
    variant             \* per folder: a manifest named in another case

vars == <<files, backup, mode, pc, todo, translations_data, success_count,
          error_count, restored_count, failed_count, skipped_count, console,
          last, trail, runs, edits, mod_json, variant>>

\* script runs and edits by hand that one behaviour holds
MaxRuns  == 2
MaxEdits == 1

Dirs == {"A", "B"}

\* the orders in which a loop may visit the folders of S: os.walk lists
\* them as the file system does, the restore as the backup file does
Orders(S) ==
    {o \in [1..Cardinality(S) -> S] :
        \A i, j \in 1..Cardinality(S) : i # j => o[i] # o[j]}

(***************************************************************************)
(* generate_test_mods.py                                                   *)
(***************************************************************************)
\* sub in s, for two strings
Contains(s, sub) ==
    \E i \in 1..(Len(s) + 1) :
        i + Len(sub) - 1 <= Len(s) /\ SubSeq(s, i, i + Len(sub) - 1) = sub

UnknownMod    == <<"U", "n", "k", "n", "o", "w", "n", " ", "M", "o", "d">>
NoDescription == <<"N", "o", " ", "d", "e", "s", "c", "r", "i", "p", "t", "i",
                   "o", "n", " ", "p", "r", "o", "v", "i", "d", "e", "d">>
UnknownId     == <<"u", "n", "k", "n", "o", "w", "n", ".", "m", "o", "d">>
TestAuthor    == <<"T", "e", "s", "t", " ", "A", "u", "t", "h", "o", "r">>
CPMark        == <<"[", "C", "P", "]">>

BetterJunimos == <<"B", "e", "t", "t", "e", "r", "J", "u", "n", "i", "m", "o",
                   "s">>
ParentJunimos == <<"h", "a", "w", "k", "f", "a", "l", "c", "o", "n", ".">>
                     \o BetterJunimos
ParentVPP     == <<"K", "e", "d", "i", "D", "i", "l", "i", ".", "V", "a", "n",
                   "i", "l", "l", "a", "P", "l", "u", "s", "P", "r", "o", "f",
                   "e", "s", "s", "i", "o", "n", "s">>
ParentPatcher == <<"P", "a", "t", "h", "o", "s", "c", "h", "i", "l", "d", ".",
                   "C", "o", "n", "t", "e", "n", "t", "P", "a", "t", "c", "h",
                   "e", "r">>
PatcherMarks  == {<<"P", "i", "e", "r", "r", "e">>,
                  <<"D", "a", "i", "s", "y", "N", "i", "k", "o">>,
                  <<"S", "h", "o", "p", "k", "e", "e", "p", "e", "r">>,
                  <<"W", "a", "y">>,
                  <<"C", "a", "n", "o", "n">>}

\* mod_info.get(key, default)
Get(x, default) == IF x.kind = "absent" THEN Str(default) ELSE x

\* lines 41-53: the parent of a content pack, None when there is none
ContentPackFor(info) ==
    LET name == Get(info.Name, <<>>)
        uid  == Get(info.UniqueID, <<>>)
    IN  IF Contains(name.v, CPMark) /\ Truthy(uid) /\ Contains(uid.v, <<".">>)
        THEN IF Contains(uid.v, BetterJunimos) THEN Str(ParentJunimos)
             ELSE IF Contains(uid.v, <<"V", "P", "P">>) THEN Str(ParentVPP)
             ELSE IF \E m \in PatcherMarks : Contains(uid.v, m)
                  THEN Str(ParentPatcher)
             ELSE None
        ELSE None

\* json.dumps of a string with ensure_ascii=False
Controls == {Chr(n) : n \in 0..31}

JsonEscapeTok(c) ==
    IF c = Q THEN <<BS, Q>>
    ELSE IF c = BS THEN <<BS, BS>>
    ELSE IF c \in Controls
    THEN LET n == CHOOSE k \in 0..31 : Chr(k) = c IN
         CASE n = 8  -> <<BS, "b">>
           [] n = 9  -> <<BS, "t">>
           [] n = 10 -> <<BS, "n">>
           [] n = 12 -> <<BS, "f">>
           [] n = 13 -> <<BS, "r">>
           [] OTHER  -> <<BS, "u", "0", "0", Hex[(n \div 16) + 1],
                          Hex[(n % 16) + 1]>>
    ELSE <<c>>

RECURSIVE JsonEscape(_)
JsonEscape(v) ==
    IF v = <<>> THEN <<>>
    ELSE IF Len(v) = 1 THEN JsonEscapeTok(v[1])
    ELSE LET h == Len(v) \div 2 IN
         JsonEscape(SubSeq(v, 1, h)) \o JsonEscape(SubSeq(v, h + 1, Len(v)))

JsonString(v) == <<Q>> \o JsonEscape(v) \o <<Q>>

\* one member of the top-level object as json.dump writes it with indent=2:
\* the key and the separator, then the value
MemberHead(key) == <<SP, SP, Q>> \o key \o <<Q, ":", SP>>
Member(key, value) == MemberHead(key) \o value

\* line 41: "[CP]" in None raises TypeError
CreateRaises(info) == info.Name.kind = "null"

Entry(key, value) == [key |-> key, value |-> value]

\* lines 33-56: the manifest of a record, None values left out: its members
\* in order, every value as json.dump spells it
CreateManifest(info) ==
    LET desc == Get(info.Description, NoDescription)
        uid  == Get(info.UniqueID, UnknownId)
        cp   == ContentPackFor(info)
        opt(x, m) == IF x.kind = "null" THEN <<>> ELSE <<m>>
    IN  <<Entry(NameKey.word, JsonString(Get(info.Name, UnknownMod).v)),
          Entry(<<"A", "u", "t", "h", "o", "r">>, JsonString(TestAuthor)),
          Entry(<<"V", "e", "r", "s", "i", "o", "n">>,
                JsonString(<<"1", ".", "0", ".", "0">>))>>
        \o opt(desc, Entry(DescKey.word, JsonString(desc.v)))
        \o opt(uid, Entry(UidKey.word, JsonString(uid.v)))
        \o <<Entry(<<"M", "i", "n", "i", "m", "u", "m", "G", "a", "m", "e",
                     "V", "e", "r", "s", "i", "o", "n">>,
                   JsonString(<<"1", ".", "5", ".", "6">>)),
             Entry(<<"M", "i", "n", "i", "m", "u", "m", "A", "p", "i",
                     "V", "e", "r", "s", "i", "o", "n">>,
                   JsonString(<<"3", ".", "1", "4", ".", "0">>)),
             Entry(UpdateKeysWord, <<"[", "]">>)>>
        \o opt(cp, Entry(<<"C", "o", "n", "t", "e", "n", "t", "P", "a",
                           "c", "k", "F", "o", "r">>,
                         <<"{", NL, SP, SP, SP, SP, Q>> \o UidKey.word
                         \o <<Q, ":", SP>> \o JsonString(cp.v)
                         \o <<NL, SP, SP, "}">>))
        \o <<Entry(<<"D", "e", "p", "e", "n", "d", "e", "n", "c", "i", "e",
                     "s">>, <<"[", "]">>),
             Entry(<<"M", "a", "p", "s">>, <<"{", "}">>)>>

\* json.dump writes the members piece by piece: the text written for the
\* members ms, which ends before the first value that cannot be encoded
RECURSIVE DumpMembers(_)
DumpMembers(ms) ==
    IF ~Encodable(ms[1].value)
    THEN [text |-> MemberHead(ms[1].key), raised |-> TRUE]
    ELSE IF Len(ms) = 1
    THEN [text |-> Member(ms[1].key, ms[1].value), raised |-> FALSE]
    ELSE LET rest == DumpMembers(Tail(ms)) IN
         [text   |-> Member(ms[1].key, ms[1].value) \o <<",", NL>>
                     \o rest.text,
          raised |-> rest.raised]

\* lines 102-103: the text that is in manifest.json after json.dump, whole
\* or cut where the write raised
Written(d) ==
    <<"{", NL>> \o d.text \o (IF d.raised THEN <<>> ELSE <<NL, "}">>)

DumpManifest(info) == Written(DumpMembers(CreateManifest(info)))

\* what the pass leaves in place of f once the manifest is made: the text
\* m is written over the manifest that is there; a manifest that cannot be
\* opened for writing is passed. Through a link to nowhere the file is
\* made if the folder the link names is there
Replaced(f, m) ==
    IF f.kind \in {"missing", "text"} THEN {m}
    ELSE IF f.kind = "dangling" THEN {m, f}
    ELSE {f}

\* lines 88-110: what the pass for one record leaves in place of f; a
\* record that raises before the file is opened is passed
GenerateOne(f, info) ==
    IF CreateRaises(info) THEN {f}
    ELSE Replaced(f, TextFile(DumpManifest(info)))

\* lines 58-120: the folders a run can leave, given the ones it finds
GenerateAll(fs, json) ==
    {g \in [Dirs -> UNION {GenerateOne(fs[d], json[d]) : d \in Dirs}] :
        \A d \in Dirs : g[d] \in GenerateOne(fs[d], json[d])}

GenRecord(n, d) ==
    [UniqueID |-> Str(<<"a">>), Name |-> n, Description |-> d]

\* the records of the file the generator reads: Chinese in both fields; a
\* Chinese name that starts with a digit; an English name and a null
\* description; an empty name with a Chinese description; an empty name and
\* a null description; a null name; a description with a lone surrogate
GenRecords ==
    {GenRecord(Str(<<Zh>>), Str(<<Zh>>)),
     GenRecord(Str(<<Zh>>), Str(<<Zh, Chr(55296)>>)),
     GenRecord(Str(<<"9", Zh>>), Str(<<Zh>>)),
     GenRecord(Str(<<"a">>), None),
     GenRecord(Str(<<>>), Str(<<Zh>>)),
     GenRecord(Str(<<>>), None),
     GenRecord(None, None)}

\* the file the generator reads: one record for each folder
GenInputs ==
    {[d \in Dirs |-> IF d = "A" THEN a ELSE b] :
        a \in GenRecords,
        b \in {GenRecord(Str(<<"9", Zh>>), Str(<<Zh>>)),
               GenRecord(None, None)}}

EmptyFolder == [d \in Dirs |-> MissingFile]

NoBackup == [exists |-> FALSE, data |-> <<>>]
NoData   == <<>>

NoRec == [UniqueID |-> None, Name |-> None, Description |-> None,
          Path |-> "", IsChinese |-> "absent", Nurl |-> None]

NoLog == [op |-> "none", dir |-> "", before |-> MissingFile, rec |-> NoRec,
          outcome |-> "", why |-> "", nameUpd |-> FALSE, descUpd |-> FALSE]

Init ==
    /\ mod_json \in GenInputs
    /\ files \in GenerateAll(EmptyFolder, mod_json)
    /\ variant = EmptyFolder
    /\ backup = NoBackup
    /\ mode = "none"
    /\ pc = "idle"
    /\ todo = <<>>
    /\ translations_data = NoData
    /\ success_count = 0 /\ error_count = 0
    /\ restored_count = 0 /\ failed_count = 0 /\ skipped_count = 0
    /\ console = ""
    /\ last = NoLog
    /\ trail = [d \in Dirs |-> "none"]
    /\ runs = 0 /\ edits = 0

(***************************************************************************)
(* generate_test_mods.py                                                   *)
(***************************************************************************)
\* lines 58-120: the manifests of the records are written again
GenerateMods ==
    /\ pc = "idle" /\ runs < MaxRuns
    /\ files' \in GenerateAll(files, mod_json)
    /\ trail' = [d \in Dirs |->
                   IF files'[d] = files[d] \/ trail[d] = "none"
                   THEN trail[d] ELSE "other"]
    /\ mode' = "generate"
    /\ console' = "generated"
    /\ last' = NoLog
    /\ runs' = runs + 1
    /\ UNCHANGED <<mod_json, variant,
                   backup, pc, todo, translations_data, success_count,
                   error_count, restored_count, failed_count, skipped_count,
                   edits>>

(***************************************************************************)
(* ExtractChineseTranslations.py                                           *)
(***************************************************************************)
ManifestNames == {"manifest.json", "Manifest.JSON"}

EntryOf(fs, vs, e) == IF e.name = "manifest.json" THEN fs[e.dir] ELSE vs[e.dir]

\* lines 40-43: os.walk gives the entries that are no directories, and the
\* name is compared in lower case
WalkFiles(fs, vs) ==
    {e \in [dir : Dirs, name : ManifestNames] :
        EntryOf(fs, vs, e).kind \notin {"missing", "dir"}}

\* os.walk goes folder by folder, in the order of the file system
WalkOrders(S) ==
    {o \in Orders(S) :
        \A i, j, k \in DOMAIN o :
            (i < j /\ j < k /\ o[i].dir = o[k].dir) => o[j].dir = o[i].dir}

\* lines 29-56: os.walk finds the manifests, the dictionary starts empty
ScanStart ==
    /\ pc = "idle" /\ runs < MaxRuns
    /\ mode' = "scan" /\ pc' = "loop"
    /\ todo' \in WalkOrders(WalkFiles(files, variant))
    /\ translations_data' = NoData
    /\ success_count' = 0 /\ error_count' = 0
    /\ restored_count' = 0 /\ failed_count' = 0 /\ skipped_count' = 0
    /\ console' = "" /\ last' = NoLog
    /\ runs' = runs + 1
    /\ UNCHANGED <<mod_json, variant,
                   files, backup, trail, edits>>

Put(data, d, rec) ==
    [x \in (DOMAIN data) \cup {d} |-> IF x = d THEN rec ELSE data[x]]

\* what one pass of the scan does with the manifest of folder d
ScanOne(d, f) ==
    IF ~Readable(f)
    THEN [outcome |-> "error", insert |-> FALSE, rec |-> NoRec]
    ELSE LET e == Extract(f.text) IN
         IF HasContent(e)
         THEN [outcome |-> "extracted", insert |-> TRUE,
               rec |-> MakeRecord(d, e)]
         ELSE [outcome |-> "no_content", insert |-> FALSE, rec |-> NoRec]

\* lines 58-138: one pass of the loop
ScanStep ==
    /\ pc = "loop" /\ mode = "scan" /\ todo # <<>>
    /\ \E d \in {Head(todo).dir} :
       \E f \in {EntryOf(files, variant, Head(todo))} :
       \E r \in {ScanOne(d, f)} :
           /\ translations_data' =
                 IF r.insert THEN Put(translations_data, d, r.rec)
                 ELSE translations_data
           /\ success_count' = success_count + (IF r.insert THEN 1 ELSE 0)
           /\ error_count' = error_count + (IF r.insert THEN 0 ELSE 1)
           /\ last' = [op |-> "scan", dir |-> d, before |-> f,
                       rec |-> r.rec, outcome |-> r.outcome, why |-> "",
                       nameUpd |-> FALSE, descUpd |-> FALSE]
    /\ todo' = Tail(todo)
    /\ UNCHANGED <<mod_json, variant,
                   files, backup, mode, pc, restored_count, failed_count,
                   skipped_count, console, trail, runs, edits>>

\* lines 140-158: the dictionary is saved unless it is empty; the script
\* ends and its variables are gone
ScanSave ==
    /\ pc = "loop" /\ mode = "scan" /\ todo = <<>>
    /\ pc' = "idle"
    /\ IF translations_data # NoData
       THEN /\ backup' = [exists |-> TRUE, data |-> translations_data]
            /\ console' = "saved"
            /\ trail' = [d \in Dirs |->
                           IF d \in DOMAIN translations_data
                           THEN "scanned" ELSE "none"]
       ELSE /\ console' = "no_data"
            /\ UNCHANGED <<mod_json, variant,
                   backup, trail>>
    /\ translations_data' = NoData
    /\ success_count' = 0 /\ error_count' = 0
    /\ last' = NoLog
    /\ UNCHANGED <<mod_json, variant,
                   files, mode, todo, restored_count, failed_count,
                   skipped_count, runs, edits>>

(***************************************************************************)
(* RestoreChineseTranslations.py                                           *)
(***************************************************************************)
\* lines 29-57: without a backup file the script returns at once
RestoreStart ==
    /\ pc = "idle" /\ runs < MaxRuns
    /\ mode' = "restore"
    /\ runs' = runs + 1
    /\ success_count' = 0 /\ error_count' = 0
    /\ restored_count' = 0 /\ failed_count' = 0 /\ skipped_count' = 0
    /\ last' = NoLog
    /\ IF backup.exists
       THEN /\ translations_data' = backup.data
            /\ todo' \in Orders(DOMAIN backup.data)
            /\ pc' = "loop" /\ console' = ""
       ELSE /\ translations_data' = NoData
            /\ todo' = <<>>
            /\ pc' = "idle" /\ console' = "no_backup"
    /\ UNCHANGED <<mod_json, variant,
                   files, backup, trail, edits>>

\* lines 60-142: one pass of the loop
RestoreStep ==
    /\ pc = "loop" /\ mode = "restore" /\ todo # <<>>
    /\ \E d \in {Head(todo)} :
       \E rec \in {translations_data[d]} :
       \E strict \in BOOLEAN :
       \E r \in {RestoreOne(files[d], rec, strict)} :
           /\ files' = IF r.written
                       THEN [files EXCEPT ![d] = TextFile(r.content)]
                       ELSE files
           /\ restored_count' =
                 restored_count + (IF r.outcome = "restored" THEN 1 ELSE 0)
           /\ skipped_count' =
                 skipped_count + (IF r.outcome = "skipped" THEN 1 ELSE 0)
           /\ failed_count' =
                 failed_count + (IF r.outcome = "failed" THEN 1 ELSE 0)
           /\ last' = [op |-> "restore", dir |-> d, before |-> files[d],
                       rec |-> rec, outcome |-> r.outcome, why |-> r.why,
                       nameUpd |-> r.nameUpd, descUpd |-> r.descUpd]
    /\ todo' = Tail(todo)
    /\ UNCHANGED <<mod_json, variant,
                   backup, mode, pc, translations_data, success_count,
                   error_count, console, trail, runs, edits>>

\* lines 144-151: the closing summary; the script ends and its variables
\* are gone
RestoreFinish ==
    /\ pc = "loop" /\ mode = "restore" /\ todo = <<>>
    /\ pc' = "idle" /\ console' = "restore_done"
    /\ translations_data' = NoData
    /\ restored_count' = 0 /\ failed_count' = 0 /\ skipped_count' = 0
    /\ last' = NoLog
    /\ UNCHANGED <<mod_json, variant,
                   files, backup, mode, todo, success_count, error_count,
                   trail, runs, edits>>

(***************************************************************************)
(* What happens to the files between two runs: a mod update or an edit by  *)
(* hand of a manifest, and an edit by hand of xlgChineseBack.json (which   *)
(* the scan's closing message invites).                                    *)
(***************************************************************************)
Field(key, v) == <<Q>> \o key \o <<Q, ":", SP, Q>> \o v \o <<Q>>

\* a manifest as an update of the mod brings it: an English Name, blanks
\* of other scripts around the colons, the UniqueID key in the capitals of
\* another language, and an update key with a digit of another script
UpdatedManifest ==
    <<"{", Q>> \o NameKey.word \o <<Q, Chr(12288), ":", Chr(8232), Q, "a", Q>>
    \o <<",", NL, Q, "U", "n", Chr(305), "q", "u", "e", Chr(304), "d", Q,
         Chr(160), ":", SP, Q, "a", Q, ",", NL, Q>>
    \o UpdateKeysWord \o <<Q, ":", SP, "[", Q>> \o NexusWord
    \o <<Chr(1635), Q, "]", "}">>

\* the first value of a field replaced by v, as typed in an editor
SetFirstValue(s, key, v) ==
    LET m == SearchField(s, 1, key) IN
    IF m.ok THEN SubSeq(s, 1, m.vstart - 1) \o v \o SubSeq(s, m.vend + 1, Len(s))
    ELSE s

EditValues == {<<"P">>}

Touched(d) ==
    [trail EXCEPT ![d] = IF @ = "none" THEN "none" ELSE "other"]

\* the value of the Name field, or of the Description field, typed over
EditField(d, key, v) ==
    /\ pc = "idle" /\ edits < MaxEdits
    /\ files[d].kind = "text"
    /\ SearchField(files[d].text, 1, key).ok
    /\ FieldValue(files[d].text, key) # Str(v)
    /\ files' = [files EXCEPT
                   ![d] = TextFile(SetFirstValue(files[d].text, key, v))]
    /\ trail' = IF key = NameKey
                THEN [trail EXCEPT
                        ![d] = IF @ \in {"scanned", "name_edited"}
                               THEN "name_edited" ELSE @]
                ELSE Touched(d)
    /\ edits' = edits + 1
    /\ UNCHANGED <<mod_json, variant,
                   backup, mode, pc, todo, translations_data, success_count,
                   error_count, restored_count, failed_count, skipped_count,
                   console, last, runs>>

DeleteManifest(d) ==
    /\ pc = "idle" /\ edits < MaxEdits
    /\ files[d].kind # "missing"
    /\ files' = [files EXCEPT ![d] = MissingFile]
    /\ trail' = Touched(d)
    /\ edits' = edits + 1
    /\ UNCHANGED <<mod_json, variant,
                   backup, mode, pc, todo, translations_data, success_count,
                   error_count, restored_count, failed_count, skipped_count,
                   console, last, runs>>

\* the folder that a mod update or a mishap reaches; the manifest of the
\* other folder is only edited by hand
MishapDirs == {"A"}

\* what a mod update or a mishap leaves in place of a manifest
UpdateFiles ==
    {TextFile(UpdatedManifest), TextFile(<<Chr(12288), NL>>), UnreadableFile,
     DirectoryFile, DanglingLink}

OverwriteManifest(d, f) ==
    /\ pc = "idle" /\ edits < MaxEdits
    /\ files[d] # f
    /\ files' = [files EXCEPT ![d] = f]
    /\ trail' = Touched(d)
    /\ edits' = edits + 1
    /\ UNCHANGED <<mod_json, variant,
                   backup, mode, pc, todo, translations_data, success_count,
                   error_count, restored_count, failed_count, skipped_count,
                   console, last, runs>>

\* the manifest loses its write permission
ProtectManifest(d) ==
    /\ pc = "idle" /\ edits < MaxEdits
    /\ files[d].kind = "text"
    /\ files' = [files EXCEPT ![d] = ReadOnlyFile(@.text)]
    /\ trail' = Touched(d)
    /\ edits' = edits + 1
    /\ UNCHANGED <<mod_json, variant,
                   backup, mode, pc, todo, translations_data, success_count,
                   error_count, restored_count, failed_count, skipped_count,
                   console, last, runs>>

\* the manifest gets its name in another case. Where the file system takes
\* no account of case the run goes on as if this had not happened
RenameManifest(d) ==
    /\ pc = "idle" /\ edits < MaxEdits
    /\ files[d].kind # "missing" /\ variant[d].kind = "missing"
    /\ variant' = [variant EXCEPT ![d] = files[d]]
    /\ files' = [files EXCEPT ![d] = MissingFile]
    /\ trail' = Touched(d)
    /\ edits' = edits + 1
    /\ UNCHANGED <<mod_json,
                   backup, mode, pc, todo, translations_data, success_count,
                   error_count, restored_count, failed_count, skipped_count,
                   console, last, runs>>

\* the values an edit of the backup file gives to one key of one record
BackupEdits ==
    {[key |-> "IsChinese", flag |-> f, val |-> None] :
        f \in {"absent", "true", "false"}}
    \cup {[key |-> "Name", flag |-> "", val |-> v] :
            v \in {Absent, None, Str(<<Chr(55296)>>)}}
    \cup {[key |-> "Description", flag |-> "", val |-> v] :
            v \in {Absent, Str(<<Zh, Chr(56320)>>)}}

Edited(rec, e) ==
    CASE e.key = "IsChinese"   -> [rec EXCEPT !.IsChinese = e.flag]
      [] e.key = "Name"        -> [rec EXCEPT !.Name = e.val]
      [] e.key = "Description" -> [rec EXCEPT !.Description = e.val]

EditBackup(d, e) ==
    /\ pc = "idle" /\ edits < MaxEdits
    /\ backup.exists /\ d \in DOMAIN backup.data
    /\ Edited(backup.data[d], e) # backup.data[d]
    /\ backup' = [backup EXCEPT !.data[d] = Edited(@, e)]
    /\ trail' = Touched(d)
    /\ edits' = edits + 1
    /\ UNCHANGED <<mod_json, variant,
                   files, mode, pc, todo, translations_data, success_count,
                   error_count, restored_count, failed_count, skipped_count,
                   console, last, runs>>

Next ==
    \/ GenerateMods
    \/ ScanStart
    \/ ScanStep
    \/ ScanSave
    \/ RestoreStart
    \/ RestoreStep
    \/ RestoreFinish
    \/ \E d \in Dirs, key \in {NameKey, DescKey}, v \in EditValues :
          EditField(d, key, v)
    \/ \E d \in MishapDirs : DeleteManifest(d)
    \/ \E d \in MishapDirs, f \in UpdateFiles : OverwriteManifest(d, f)
    \/ \E d \in MishapDirs : ProtectManifest(d)
    \/ \E d \in MishapDirs : RenameManifest(d)
    \/ \E d \in Dirs, e \in BackupEdits : EditBackup(d, e)

Spec == Init /\ [][Next]_vars

(***************************************************************************)
(* The patches alone: one manifest drawn from a family with comments,      *)
(* repeated key and odd spacing, one record drawn from values with        *)
(* quotes, backslashes and digits, and the restore run on them.            *)
(***************************************************************************)
MaxItems  == 3
MaxValLen == 1

PatchItems ==
    {Field(NameKey.word, <<"a">>),
     <<Q>> \o NameKey.word \o <<Q, SP, ":", NL, Q, Zh, Q>>,
     Field(DescKey.word, <<"a">>),
     <<Q, "u", "n", "i", "q", "u", "e", "I", "d", Q, ":", Q, "a", Q>>,
     <<Q>> \o UpdateKeysWord \o <<Q, ":", "[", Q>> \o NexusWord
        \o <<"9", Q, "]">>,
     <<"/", "*">>,
     <<"*", "/">>,
     <<"/", "/">>,
     <<NL>>}

RECURSIVE TextsOf(_)
TextsOf(n) ==
    IF n = 0 THEN {<<>>}
    ELSE {t \o i : t \in TextsOf(n - 1), i \in PatchItems \cup {<<>>}}

PatchTexts == TextsOf(MaxItems) \ {<<>>}

ValueAlphabet == {"a", "9", Q, BS, Chr(55296)}

RECURSIVE ValuesOf(_)
ValuesOf(n) ==
    IF n = 0 THEN {<<>>}
    ELSE {v \o c : v \in ValuesOf(n - 1),
                   c \in {<<x>> : x \in ValueAlphabet} \cup {<<>>}}

PatchValues == {Str(v) : v \in ValuesOf(MaxValLen) \ {<<>>}} \cup {Absent}

PatchRecords ==
    {[UniqueID |-> Str(<<"a">>), Name |-> n, Description |-> d,
      Path |-> "A", IsChinese |-> "true", Nurl |-> None] :
        n \in PatchValues, d \in PatchValues}

PatchInit ==
    /\ \E t \in PatchTexts :
          files = [d \in Dirs |-> IF d = "A" THEN TextFile(t) ELSE MissingFile]
    /\ \E rec \in PatchRecords :
          backup = [exists |-> TRUE, data |-> [d \in {"A"} |-> rec]]
    /\ mode = "none"
    /\ pc = "idle"
    /\ todo = <<>>
    /\ translations_data = NoData
    /\ success_count = 0 /\ error_count = 0
    /\ restored_count = 0 /\ failed_count = 0 /\ skipped_count = 0
    /\ console = ""
    /\ last = NoLog
    /\ trail = [d \in Dirs |-> "other"]
    /\ runs = 0 /\ edits = 0
    /\ mod_json = [d \in Dirs |-> GenRecord(None, None)]
    /\ variant = EmptyFolder

PatchNext ==
    \/ RestoreStart
    \/ RestoreStep
    \/ RestoreFinish

PatchSpec == PatchInit /\ [][PatchNext]_vars

(***************************************************************************)
(* Properties                                                              *)
(***************************************************************************)
\* the value spans of every match of the field pattern, left to right
RECURSIVE AllValues(_, _, _)
AllValues(s, i, key) ==
    LET m == SearchField(s, i, key) IN
    IF ~m.ok THEN <<>>
    ELSE <<SubSeq(s, m.vstart, m.vend)>> \o AllValues(s, m.vend + 2, key)

HasSpecial(v) == \E i \in 1..Len(v) : v[i] \in {Q, BS}

Restored == last.op = "restore"
Scanned  == last.op = "scan"
Now      == files[last.dir]

\* the pass reached the patches: the file was read, is not blank and the
\* record was to be updated
ReachedPatches ==
    /\ Restored /\ last.before.kind = "text" /\ ~IsBlank(last.before.text)
    /\ last.why # "not_chinese"

\* C1: the Name patch is idempotent: applied to the text it has already
\* patched, with the same value, it gives that text again; and a second run
\* of the restore leaves a manifest as the first run left it.
C1_PatchIdempotent ==
    (Restored /\ last.nameUpd) =>
        LET once == PatchName(last.before.text, last.rec) IN
        /\ PatchName(once.content, last.rec).content = once.content
        /\ (runs > 1 /\ last.outcome = "restored" => Now = last.before)

\* C2: round trip: a manifest with an extractable Name and Description,
\* patched with new values N2 and D2, is extracted as name N2 and
\* description D2, with the UniqueID and the update URL it had before.
C2_RoundTrip ==
    ( /\ ReachedPatches
      /\ Truthy(last.rec.Name) /\ Truthy(last.rec.Description)
      /\ Extract(last.before.text).name.kind = "str"
      /\ Extract(last.before.text).description.kind = "str" )
    => Extract(Now.text) =
          [name        |-> last.rec.Name,
           description |-> last.rec.Description,
           unique_id   |-> Extract(last.before.text).unique_id,
           nurl        |-> Extract(last.before.text).nurl]

\* C3: escaping: a value with a double quote or a backslash that was patched
\* into Name or Description is extracted again as the value itself.
C3_EscapedValueExtracted ==
    (Restored /\ last.outcome = "restored") =>
        /\ ( /\ last.nameUpd /\ HasSpecial(last.rec.Name.v)
             /\ Extract(last.before.text).name.kind = "str" )
           => Extract(Now.text).name = last.rec.Name
        /\ ( /\ last.descUpd /\ HasSpecial(last.rec.Description.v)
             /\ Extract(last.before.text).description.kind = "str" )
           => Extract(Now.text).description = last.rec.Description

\* the text new is the text old but for the span from..to
OnlySpanChanged(old, new, from, to) ==
    /\ Len(new) >= (from - 1) + (Len(old) - to)
    /\ SubSeq(new, 1, from - 1) = SubSeq(old, 1, from - 1)
    /\ SubSeq(new, Len(new) - (Len(old) - to) + 1, Len(new))
          = SubSeq(old, to + 1, Len(old))

PatchOfOneField(key) ==
    LET m == SearchField(last.before.text, 1, key) IN
    IF m.ok
    THEN Now.kind = "text"
         /\ OnlySpanChanged(last.before.text, Now.text, m.vstart, m.vend)
    ELSE Now = last.before /\ last.outcome # "restored"
         /\ ~last.nameUpd /\ ~last.descUpd

\* C4: the patch of one field changes the value span of the first
\* occurrence of the field and nothing else, later occurrences of the key
\* included; without an occurrence the text stays as it is and no change
\* is reported.
C4_OnlyFirstOccurrence ==
    /\ (ReachedPatches /\ Truthy(last.rec.Name)
            /\ ~Truthy(last.rec.Description))
       => PatchOfOneField(NameKey)
    /\ (ReachedPatches /\ Truthy(last.rec.Description)
            /\ ~Truthy(last.rec.Name))
       => PatchOfOneField(DescKey)

\* C5: a manifest with Chinese in Name or Description that was scanned and
\* then had its Name edited has, after the restore, the Name of scan time
\* and the Description it had before the restore, and counts as restored.
\* Stated for a Name that was not empty at scan time: an empty Name is not
\* written back at all (lines 111, C6).
C5_ScanEditRestore ==
    ( /\ Restored /\ trail[last.dir] = "name_edited"
      /\ IsChineseOf(last.rec.Name, last.rec.Description)
      /\ Truthy(last.rec.Name) )
    => /\ last.outcome = "restored"
       /\ Extract(Now.text).name = last.rec.Name
       /\ Extract(Now.text).description
             = Extract(last.before.text).description

\* C6: a Name or Description that is missing, null or empty in the record
\* never changes that field of the manifest and never sets the updated
\* flag; with both so, nothing is written; and the restore never changes
\* a UniqueID value.
C6_AbsentFieldsLeftAlone ==
    Restored =>
        /\ ~Truthy(last.rec.Name) =>
              /\ ~last.nameUpd
              /\ AllValues(Now.text, 1, NameKey)
                    = AllValues(last.before.text, 1, NameKey)
        /\ ~Truthy(last.rec.Description) =>
              /\ ~last.descUpd
              /\ AllValues(Now.text, 1, DescKey)
                    = AllValues(last.before.text, 1, DescKey)
        /\ (~Truthy(last.rec.Name) /\ ~Truthy(last.rec.Description)) =>
              /\ last.outcome # "restored"
              /\ Now = last.before
        /\ AllValues(Now.text, 1, UidKey)
              = AllValues(last.before.text, 1, UidKey)

\* C7: a record with an IsChinese flag is patched only if the flag is true,
\* whatever its Name and Description hold; the recheck of the two values
\* decides only for a record without the flag; a record decided against is
\* counted as skipped and its manifest is left as it is.
C7_StoredFlagDecides ==
    (Restored /\ Readable(last.before) /\ ~IsBlank(last.before.text)) =>
        LET decided ==
              IF last.rec.IsChinese # "absent"
              THEN last.rec.IsChinese = "true"
              ELSE IsChineseOf(last.rec.Name, last.rec.Description)
        IN  /\ decided <=> last.why # "not_chinese"
            /\ ~decided => last.outcome = "skipped" /\ Now = last.before
            /\ last.outcome = "restored" => decided

\* a record with Chinese in it and the flag false, skipped
C7_Witness ==
    /\ Restored /\ last.before.kind = "text"
    /\ last.rec.IsChinese = "false"
    /\ IsChineseOf(last.rec.Name, last.rec.Description)
    /\ last.outcome = "skipped" /\ last.why = "not_chinese"

RestoreLoop == mode = "restore" /\ pc = "loop"

ScanLoop == mode = "scan" /\ pc = "loop"

\* C9: every record of the scan's store has a Name or a Description that is
\* present and not empty; a manifest from which neither is extracted is not
\* inserted and is counted as an error, and the scan goes on to the
\* manifests that remain, so that every manifest found is counted.
C9_StoreHasContent ==
    /\ [](ScanLoop =>
            /\ \A d \in DOMAIN translations_data :
                  \/ Truthy(translations_data[d].Name)
                  \/ Truthy(translations_data[d].Description)
            /\ success_count + error_count + Len(todo)
                  = Cardinality(WalkFiles(files, variant)))
    /\ [][(ScanLoop /\ todo # <<>>) =>
            LET f == EntryOf(files, variant, Head(todo)) IN
            /\ ScanLoop'
            /\ todo' = Tail(todo)
            /\ ( /\ Readable(f)
                 /\ \E e \in {Extract(f.text)} :
                       ~Truthy(e.name) /\ ~Truthy(e.description) )
               => /\ translations_data' = translations_data
                  /\ success_count' = success_count
                  /\ error_count' = error_count + 1
                  /\ last'.outcome = "no_content"]_vars

\* a manifest without a Name or Description of any length was passed over
\* and the one after it was extracted
C9_Witness ==
    /\ ScanLoop /\ Scanned /\ last.outcome = "extracted"
    /\ error_count = 1 /\ success_count = 1
    /\ \E e \in WalkFiles(files, variant) :
          /\ e.dir # last.dir
          /\ Readable(EntryOf(files, variant, e))
          /\ ~Truthy(Extract(EntryOf(files, variant, e).text).name)
          /\ ~Truthy(Extract(EntryOf(files, variant, e).text).description)

\* C10: the manifest is written back exactly when the Name patch or the
\* Description patch found its field in the text; a record to be updated
\* of which neither field is found is counted as failed and its manifest
\* is not written.
C10_WrittenIffMatched ==
    ReachedPatches =>
        LET matched ==
              \/ /\ Truthy(last.rec.Name)
                 /\ SearchField(last.before.text, 1, NameKey).ok
              \/ /\ Truthy(last.rec.Description)
                 /\ SearchField(last.before.text, 1, DescKey).ok
        IN  /\ matched <=> last.outcome = "restored"
            /\ ~matched => last.outcome = "failed" /\ Now = last.before

====
